---- MODULE Spec2Model ----
(***************************************************************************)
(* Index lifecycle (src/src/indexer.py), query pipeline                    *)
(* (src/src/query_engine.py) and the Streamlit front end (src/app.py) of   *)
(* the tech-docs RAG assistant.                                            *)
(*                                                                         *)
(* Similarity scores are fixed-point numbers in thousandths (700 = 0.7);   *)
(* confidences are in hundredths (70 = 0.70).                              *)
(***************************************************************************)
EXTENDS Integers, Sequences, FiniteSets

VARIABLES
    settingsConfigured, \* indexer.py:19  _SETTINGS_CONFIGURED
    modelLoads,         \* how many times indexer.py:46-47 built the model clients
    pc,                 \* per UI session: position inside DocumentIndexer.__init__
    manifest,           \* per persist_dir: state of <persist_dir>/index_store.json
    chroma,             \* ./chroma_db: the "tech_docs" collection and its chunks
    corpus,             \* markdown files currently under data/raw/fastapi_docs
    cache,              \* st.cache_resource entry of initialize_system()
    last,               \* the call made by the latest step and how it ended
    nodes,              \* scored candidate nodes handed to the query pipeline
    result,             \* outcome of the latest SmartQueryEngine.query
    tree,               \* DocumentLoader.data_path and the *.md files below it
    loadedDocs          \* outcome of the latest DocumentLoader.load_documents

vars == <<settingsConfigured, modelLoads, pc, manifest, chroma, corpus, cache,
          last, nodes, result, tree, loadedDocs>>

(***************************************************************************)
(* Bounds                                                                  *)
(***************************************************************************)
MaxCopies == 2
MaxNodes == 6
MaxFiles == 2

(***************************************************************************)
(* Query pipeline: src/src/query_engine.py                                 *)
(***************************************************************************)
similarity_top_k == 5
similarity_cutoff == 700

Min(a, b) == IF a <= b THEN a ELSE b

Remove(s, i) == SubSeq(s, 1, i - 1) \o SubSeq(s, i + 1, Len(s))

\* Position of the highest score; the earliest one on a tie.
BestPos(s) ==
    CHOOSE i \in 1..Len(s) :
        /\ \A j \in 1..Len(s) : s[j].score <= s[i].score
        /\ \A j \in 1..(i - 1) : s[j].score < s[i].score

RECURSIVE RankDesc(_)
RankDesc(s) ==
    IF s = <<>> THEN <<>>
    ELSE LET i == BestPos(s) IN <<s[i]>> \o RankDesc(Remove(s, i))

\* Retrieve without the top-k bound.
Retrieve_unbounded(ns) == RankDesc(ns)

\* VectorIndexRetriever(index, similarity_top_k=5)
Retrieve(ns) ==
    LET ranked == RankDesc(ns)
    IN SubSeq(ranked, 1, Min(similarity_top_k, Len(ranked)))

KeepNode(n) == n.score >= similarity_cutoff

\* SimilarityPostprocessor(similarity_cutoff=0.7)
Postprocess(ns) == SelectSeq(ns, KeepNode)

\* response.source_nodes of RetrieverQueryEngine.query
SourceNodes(ns) == Postprocess(Retrieve(ns))

\* the "sources" list built in SmartQueryEngine.query
FormatSources(source_nodes) ==
    [i \in 1..Len(source_nodes) |->
        [source |-> source_nodes[i].source, score |-> source_nodes[i].score]]

RECURSIVE SumScores(_)
SumScores(s) == IF s = <<>> THEN 0 ELSE s[1].score + SumScores(Tail(s))

\* round(x, 2) of x = total/count (thousandths) to hundredths.  On an exact
\* decimal tie the binary value of the float decides, so both neighbours
\* are possible.
Round2(total, count) ==
    LET unit == 10 * count
        q == total \div unit
        r == total % unit
    IN IF 2 * r < unit THEN {q}
       ELSE IF 2 * r > unit THEN {q + 1}
       ELSE {q, q + 1}

\* _calculate_confidence averaging over top-k instead of the nodes returned.
calculate_confidence_over_k(source_nodes) ==
    IF source_nodes = <<>> THEN {0}
    ELSE Round2(SumScores(source_nodes), similarity_top_k)

\* SmartQueryEngine._calculate_confidence: the values it can return
calculate_confidence(source_nodes) ==
    IF source_nodes = <<>> THEN {0}
    ELSE Round2(SumScores(source_nodes), Len(source_nodes))

NoResult == [status |-> "none", sources |-> <<>>, confidence |-> 0]

\* query with the pipeline's exception swallowed into an empty result.
query_swallowing(ns, failure) ==
    LET source_nodes == IF failure # "none" THEN <<>> ELSE SourceNodes(ns)
    IN {[status |-> "returned",
         sources |-> FormatSources(source_nodes),
         confidence |-> c] : c \in calculate_confidence(source_nodes)}

\* SmartQueryEngine.query: the outcomes of one call.  failure is "none" or
\* the step of query_engine.query that raised.
query(ns, failure) ==
    IF failure # "none"
    THEN {[status |-> "raised", sources |-> <<>>, confidence |-> 0]}
    ELSE LET source_nodes == SourceNodes(ns)
         IN {[status |-> "returned",
              sources |-> FormatSources(source_nodes),
              confidence |-> c] : c \in calculate_confidence(source_nodes)}

QueryFailures == {"none", "embedding", "generation"}

(***************************************************************************)
(* Document loader: src/src/data_loader.py                                 *)
(*                                                                         *)
(* A path is the sequence of its components, as pathlib's Path.parts.      *)
(***************************************************************************)
\* data_path as given to DocumentLoader: ".", a relative directory of one
\* or three components, an absolute directory.
Roots == {<<>>, <<"docs">>, <<"data", "raw", "fastapi_docs">>, <<"/", "srv", "docs">>}

\* Where below data_path a markdown file lies: directly in it, or in a
\* subdirectory, or in a subdirectory of one.
Subdirs == {<<>>, <<"guides">>, <<"guides", "api">>}

\* How reading and parsing a file ends: it parses, open() fails with an
\* OSError, or decoding its bytes fails with a UnicodeDecodeError.
FileKinds == {"ok", "OSError", "UnicodeDecodeError"}

FileNames == <<"intro.md", "setup.md", "usage.md">>

NoTree == [root |-> <<>>, files |-> <<>>]
NotLoaded == [status |-> "none", error |-> "None", documents |-> <<>>]

\* md_file as rglob yields it: data_path joined with the relative path
PathOf(root, file) == root \o file.dir \o <<file.name>>

\* DocumentLoader._extract_section(file_path)
extract_section(parts) ==
    IF Len(parts) > 2 THEN parts[Len(parts) - 1] ELSE "general"

\* except IOError (data_loader.py:43)
Skipped(e) == e = "OSError"

\* The loop of load_documents from file i on, documents holding what was
\* loaded so far.
RECURSIVE LoadFrom(_, _, _, _)
LoadFrom(root, files, i, documents) ==
    IF i > Len(files)
    THEN [status |-> "returned", error |-> "None", documents |-> documents]
    ELSE LET md_file == PathOf(root, files[i])
         IN IF files[i].kind = "ok"
            THEN LoadFrom(root, files, i + 1,
                    Append(documents, [source |-> md_file,
                                       file_type |-> "markdown",
                                       section |-> extract_section(md_file)]))
            ELSE IF Skipped(files[i].kind)
            THEN LoadFrom(root, files, i + 1, documents)
            ELSE [status |-> "raised", error |-> files[i].kind,
                  documents |-> <<>>]

\* DocumentLoader.load_documents
load_documents(root, files) == LoadFrom(root, files, 1, <<>>)

(***************************************************************************)
(* Index lifecycle: src/src/indexer.py                                     *)
(***************************************************************************)
Sessions == {"s1", "s2"}
Dirs == {"./storage", "./alt_storage"}
Docs == {"guide.md", "intro.md"}
persist_dir == "./storage"
collection_name == "tech_docs"
None == "None"

\* documents=None, as opposed to a (possibly empty) list of documents
NoDocuments == {None}
DocumentArgs == (SUBSET Docs) \cup {NoDocuments}

ManifestStates == {"absent", "valid", "corrupt", "mismatch"}

EmptyCollection == [exists |-> TRUE, count |-> [d \in Docs |-> 0]]
NoCollection == [exists |-> FALSE, count |-> [d \in Docs |-> 0]]

\* Exactly one copy of every chunk of docs, and nothing else.
ChunksOf(docs) == [d \in Docs |-> IF d \in docs THEN 1 ELSE 0]

\* The documents of a list in the order they are embedded and inserted.
DocOrder == <<"guide.md", "intro.md">>
InList(docs) == LET Member(d) == d \in docs IN SelectSeq(DocOrder, Member)

\* DocumentIndexer.index_exists
index_exists(mf, dir) == mf[dir] # "absent"

\* What the try block of load_existing_index does: "loaded", or the
\* exception raised by get_collection / from_defaults / load_index_from_storage.
LoadAttempt(mf, ch, dir) ==
    IF ~ch.exists THEN "CollectionNotFound"
    ELSE IF mf[dir] = "corrupt" THEN "ManifestUnreadable"
    ELSE IF mf[dir] = "mismatch" THEN "SchemaMismatch"
    ELSE "loaded"

\* A handler that catches the missing collection only.
Caught_lookup_only(e) == e = "CollectionNotFound"

\* except Exception (indexer.py:82)
Caught(e) == TRUE

\* DocumentIndexer.load_existing_index.  A loaded index is a view onto the
\* Chroma collection, identified here by the collection's name.
load_existing_index(mf, ch, dir) ==
    IF ~index_exists(mf, dir)
    THEN [raised |-> FALSE, error |-> None, index |-> None]
    ELSE LET e == LoadAttempt(mf, ch, dir)
         IN IF e = "loaded"
            THEN [raised |-> FALSE, error |-> None, index |-> collection_name]
            ELSE IF Caught(e)
            THEN [raised |-> FALSE, error |-> None, index |-> None]
            ELSE [raised |-> TRUE, error |-> e, index |-> None]

BuildFailures ==
    {[at |-> a, done |-> 0] : a \in {"none", "collection", "persist_unwritten",
                                     "persist_truncated"}}
    \cup {[at |-> "insert", done |-> k] : k \in 0..(Cardinality(Docs) - 1)}

\* collection.add of the first k documents' chunks of the list
Insert(ch, order, k) ==
    [exists |-> TRUE,
     count |-> [d \in Docs |->
        ch.count[d] + Cardinality({i \in 1..k : order[i] = d})]]

\* persist into the default directory instead of self.persist_dir.
Persist_default_dir(mf, dir) == [mf EXCEPT ![persist_dir] = "valid"]

\* index.storage_context.persist(persist_dir): writes index_store.json
Persist(mf, dir) == [mf EXCEPT ![dir] = "valid"]

\* DocumentIndexer.create_new_index(documents), failing at fail.at or not at
\* all.  Yields the call's outcome and the persisted state it leaves.
create_new_index(mf, ch, dir, documents, fail) ==
    LET order == InList(documents)
        total == Len(order)
    IN IF fail.at = "collection"
       THEN [raised |-> TRUE, error |-> "BuildError", index |-> None,
             inserted |-> 0, manifest |-> mf, chroma |-> ch]
       ELSE IF fail.at = "insert"
       THEN [raised |-> TRUE, error |-> "BuildError", index |-> None,
             inserted |-> fail.done, manifest |-> mf,
             chroma |-> Insert(ch, order, fail.done)]
       ELSE IF fail.at = "persist_unwritten"
       THEN [raised |-> TRUE, error |-> "BuildError", index |-> None,
             inserted |-> total, manifest |-> mf,
             chroma |-> Insert(ch, order, total)]
       ELSE IF fail.at = "persist_truncated"
       THEN [raised |-> TRUE, error |-> "BuildError", index |-> None,
             inserted |-> total, manifest |-> [mf EXCEPT ![dir] = "corrupt"],
             chroma |-> Insert(ch, order, total)]
       ELSE [raised |-> FALSE, error |-> None, index |-> collection_name,
             inserted |-> total, manifest |-> Persist(mf, dir),
             chroma |-> Insert(ch, order, total)]

\* A failure point exists for this list, and the stored copies stay bounded.
CanBuild(ch, documents, fail) ==
    /\ fail.at = "insert" => fail.done < Cardinality(documents)
    /\ \A d \in documents : ch.count[d] < MaxCopies

\* get_or_create_index handing back the failed load's None.
get_or_create_index_returns_none(mf, ch, dir, documents, fail) ==
    LET loaded == load_existing_index(mf, ch, dir)
    IN IF loaded.raised \/ loaded.index # None \/ documents = NoDocuments
       THEN [raised |-> loaded.raised, error |-> loaded.error,
             index |-> loaded.index, inserted |-> 0,
             manifest |-> mf, chroma |-> ch]
       ELSE create_new_index(mf, ch, dir, documents, fail)

\* DocumentIndexer.get_or_create_index(documents=None)
get_or_create_index(mf, ch, dir, documents, fail) ==
    LET loaded == load_existing_index(mf, ch, dir)
    IN IF loaded.raised \/ loaded.index # None
       THEN [raised |-> loaded.raised, error |-> loaded.error,
             index |-> loaded.index, inserted |-> 0,
             manifest |-> mf, chroma |-> ch]
       ELSE IF documents = NoDocuments
       THEN [raised |-> TRUE, error |-> "ValueError", index |-> None,
             inserted |-> 0, manifest |-> mf, chroma |-> ch]
       ELSE create_new_index(mf, ch, dir, documents, fail)


\* The record of a call: what was called with what, and how it ended.
Call(op, dir, documents, out, shown) ==
    [op |-> op, dir |-> dir, documents |-> documents, raised |-> out.raised,
     error |-> out.error, index |-> out.index, inserted |-> out.inserted,
     shown |-> shown, failure |-> "none"]

\* The outcome of a call that inserts no chunk.
Outcome(raised, error, index) ==
    [raised |-> raised, error |-> error, index |-> index, inserted |-> 0]

Plain == Outcome(FALSE, None, None)

\* DocumentIndexer.__init__ up to the test of _configure_settings
\* (indexer.py:43): a configured process skips the branch.
Construct(s) ==
    /\ pc[s] = "idle"
    /\ pc' = [pc EXCEPT ![s] = IF settingsConfigured THEN "idle" ELSE "loading_models"]
    /\ last' = Call("DocumentIndexer", persist_dir, NoDocuments, Plain, "")
    /\ UNCHANGED <<tree, loadedDocs>>
    /\ UNCHANGED <<settingsConfigured, modelLoads, manifest, chroma, corpus,
                   cache, nodes, result>>

\* The model-initializing branch of _configure_settings (indexer.py:46-49).
configure_settings(s) ==
    /\ pc[s] = "loading_models"
    /\ modelLoads' = modelLoads + 1
    /\ settingsConfigured' = TRUE
    /\ pc' = [pc EXCEPT ![s] = "idle"]
    /\ last' = Call("_configure_settings", persist_dir, NoDocuments, Plain, "")
    /\ UNCHANGED <<tree, loadedDocs>>
    /\ UNCHANGED <<manifest, chroma, corpus, cache, nodes, result>>

\* Some thread holds an indexer: its constructor has returned, and then
\* _SETTINGS_CONFIGURED is set.
HasIndexer == settingsConfigured /\ \E s \in Sessions : pc[s] = "idle"

LoadExistingIndex(dir) ==
    /\ HasIndexer
    /\ LET out == load_existing_index(manifest, chroma, dir)
       IN last' = Call("load_existing_index", dir, NoDocuments,
                       Outcome(out.raised, out.error, out.index), "")
    /\ UNCHANGED <<tree, loadedDocs>>
    /\ UNCHANGED <<settingsConfigured, modelLoads, pc, manifest, chroma,
                   corpus, cache, nodes, result>>

CreateNewIndex(dir, documents, fail) ==
    /\ HasIndexer
    /\ CanBuild(chroma, documents, fail)
    /\ LET out == create_new_index(manifest, chroma, dir, documents, fail)
       IN /\ manifest' = out.manifest
          /\ chroma' = out.chroma
          /\ last' = Call("create_new_index", dir, documents, out, "")
    /\ UNCHANGED <<tree, loadedDocs>>
    /\ UNCHANGED <<settingsConfigured, modelLoads, pc, corpus, cache, nodes,
                   result>>

GetOrCreateIndex(dir, documents, fail) ==
    /\ HasIndexer
    /\ documents # NoDocuments => CanBuild(chroma, documents, fail)
    /\ documents = NoDocuments => fail.at = "none"
    /\ LET out == get_or_create_index(manifest, chroma, dir, documents, fail)
       IN /\ manifest' = out.manifest
          /\ chroma' = out.chroma
          /\ last' = Call("get_or_create_index", dir, documents, out, "")
    /\ UNCHANGED <<tree, loadedDocs>>
    /\ UNCHANGED <<settingsConfigured, modelLoads, pc, corpus, cache, nodes,
                   result>>


(***************************************************************************)
(* Front end: src/app.py                                                   *)
(***************************************************************************)
Questions == {"route", "mercury"}

\* Similarity of a stored chunk to the embedded question, as the embedding
\* model (indexer.py:47) and the Chroma query produce it.
Similarity(q, d) ==
    IF q = "route" THEN (IF d = "intro.md" THEN 850 ELSE 720)
    ELSE (IF d = "intro.md" THEN 300 ELSE 120)

Repeat(x, n) == [i \in 1..n |-> x]

RECURSIVE StoredFrom(_, _, _)
StoredFrom(ch, q, i) ==
    IF i > Len(DocOrder) THEN <<>>
    ELSE Repeat([source |-> DocOrder[i], score |-> Similarity(q, DocOrder[i])],
                ch.count[DocOrder[i]])
         \o StoredFrom(ch, q, i + 1)

\* The chunks an index serves, each with its similarity to the question.
StoredNodes(ch, q) == StoredFrom(ch, q, 1)

\* initialize_system() under @st.cache_resource, called from main().
\* ca is the cache entry on entry, docs what DocumentLoader.load_documents
\* returns.
initialize_system(mf, ch, ca, docs, fail) ==
    IF ca # None
    THEN [cache |-> ca, manifest |-> mf, chroma |-> ch, built |-> FALSE,
          out |-> Outcome(FALSE, None, ca), shown |-> "ready"]
    ELSE LET loaded == load_existing_index(mf, ch, persist_dir)
         IN IF loaded.raised
            THEN [cache |-> None, manifest |-> mf, chroma |-> ch,
                  built |-> FALSE,
                  out |-> Outcome(TRUE, loaded.error, None),
                  shown |-> "init_failed"]
            ELSE IF loaded.index # None
            THEN [cache |-> loaded.index, manifest |-> mf, chroma |-> ch,
                  built |-> FALSE,
                  out |-> Outcome(FALSE, None, loaded.index),
                  shown |-> "loaded_existing"]
            ELSE LET b == create_new_index(mf, ch, persist_dir, docs, fail)
                 IN [cache |-> b.index, manifest |-> b.manifest,
                     chroma |-> b.chroma, built |-> TRUE,
                     out |-> [raised |-> b.raised, error |-> b.error,
                              index |-> b.index, inserted |-> b.inserted],
                     shown |-> IF b.raised THEN "setup_error"
                               ELSE "setup_complete"]

\* initialize_system reaches create_new_index
WillBuild(ca) ==
    /\ ca = None
    /\ load_existing_index(manifest, chroma, persist_dir).index = None

BuildInput(ca, fail) ==
    IF WillBuild(ca) THEN CanBuild(chroma, corpus, fail) ELSE fail.at = "none"

\* One run of the script that ends after initialize_system.
ScriptRun(op, ca, fail) ==
    /\ BuildInput(ca, fail)
    /\ LET r == initialize_system(manifest, chroma, ca, corpus, fail)
       IN /\ cache' = r.cache
          /\ manifest' = r.manifest
          /\ chroma' = r.chroma
          /\ last' = Call(op, persist_dir,
                          IF r.built THEN corpus ELSE NoDocuments,
                          r.out, r.shown)
    /\ nodes' = <<>>
    /\ result' = NoResult
    /\ UNCHANGED <<tree, loadedDocs>>
    /\ UNCHANGED <<settingsConfigured, modelLoads, pc, corpus>>

\* main() with no button pressed and no question.
OpenPage(fail) ==
    /\ HasIndexer
    /\ ScriptRun("main", cache, fail)

\* "Rebuild Index" (app.py:100-105): clear the cache, rerun the script.
RebuildIndex(fail) ==
    /\ HasIndexer
    /\ ScriptRun("rebuild_index", None, fail)

\* "Clear Cache" (app.py:107-109): clear the cache; the run goes on.
ClearCache(fail) ==
    /\ HasIndexer
    /\ ScriptRun("clear_cache", None, fail)

\* What main() renders for the outcome of query_engine.query (app.py:182-213).
Render(res) ==
    IF res.status = "raised" THEN "query_error"
    ELSE IF res.sources # <<>> THEN "answer_with_sources"
    ELSE "answer_no_sources"

\* main() with a question and the search button (app.py:180-213).
Search(q, failure, fail) ==
    /\ HasIndexer
    /\ BuildInput(cache, fail)
    /\ LET r == initialize_system(manifest, chroma, cache, corpus, fail)
       IN /\ cache' = r.cache
          /\ manifest' = r.manifest
          /\ chroma' = r.chroma
          /\ IF r.cache = None
             THEN /\ failure = "none"
                  /\ nodes' = <<>>
                  /\ result' = NoResult
                  /\ last' = Call("search", persist_dir,
                                  IF r.built THEN corpus ELSE NoDocuments,
                                  r.out, r.shown)
             ELSE /\ nodes' = StoredNodes(r.chroma, q)
                  /\ result' \in query(nodes', failure)
                  /\ last' = [Call("search", persist_dir,
                                   IF r.built THEN corpus ELSE NoDocuments,
                                   r.out, Render(result'))
                              EXCEPT !.failure = failure]
    /\ UNCHANGED <<tree, loadedDocs>>
    /\ UNCHANGED <<settingsConfigured, modelLoads, pc, corpus>>

\* The markdown files under data/raw/fastapi_docs change.
EditCorpus(docs) ==
    /\ docs # corpus
    /\ corpus' = docs
    /\ last' = Call("edit_corpus", persist_dir, docs, Plain, "")
    /\ nodes' = <<>>
    /\ result' = NoResult
    /\ UNCHANGED <<tree, loadedDocs>>
    /\ UNCHANGED <<settingsConfigured, modelLoads, pc, manifest, chroma, cache>>

(***************************************************************************)
(* A process that uses DocumentIndexer directly.  Any manifests may be     *)
(* found at start; ./chroma_db holds no collection yet.                    *)
(***************************************************************************)
Init ==
    /\ settingsConfigured = FALSE
    /\ modelLoads = 0
    /\ pc = [s \in Sessions |-> "idle"]
    /\ manifest \in [Dirs -> ManifestStates]
    /\ chroma = NoCollection
    /\ corpus = {}
    /\ cache = None
    /\ last = Call("start", persist_dir, NoDocuments, Plain, "")
    /\ nodes = <<>>
    /\ result = NoResult
    /\ tree = NoTree
    /\ loadedDocs = NotLoaded

Next ==
    \/ \E s \in Sessions : Construct(s)
    \/ \E s \in Sessions : configure_settings(s)
    \/ \E dir \in Dirs : LoadExistingIndex(dir)
    \/ \E dir \in Dirs, documents \in SUBSET Docs, fail \in BuildFailures :
          CreateNewIndex(dir, documents, fail)
    \/ \E dir \in Dirs, documents \in DocumentArgs, fail \in BuildFailures :
          GetOrCreateIndex(dir, documents, fail)

Spec == Init /\ [][Next]_vars

(***************************************************************************)
(* The Streamlit application: every session runs the script of app.py in   *)
(* a thread of its own, against the default ./storage.  At start the disk  *)
(* holds no collection beside whatever manifest is there, or the index an  *)
(* earlier run built from some documents.                                  *)
(***************************************************************************)
BuiltEarlier(docs) == [exists |-> TRUE, count |-> ChunksOf(docs)]

AppInit ==
    /\ settingsConfigured = FALSE
    /\ modelLoads = 0
    /\ pc = [s \in Sessions |-> "idle"]
    /\ \E state \in ManifestStates :
          manifest = [d \in Dirs |-> IF d = persist_dir THEN state ELSE "absent"]
    /\ \/ chroma = NoCollection
       \/ /\ manifest[persist_dir] = "valid"
          /\ \E docs \in SUBSET Docs : chroma = BuiltEarlier(docs)
    /\ corpus \in SUBSET Docs
    /\ cache = None
    /\ last = Call("start", persist_dir, NoDocuments, Plain, "")
    /\ nodes = <<>>
    /\ result = NoResult
    /\ tree = NoTree
    /\ loadedDocs = NotLoaded

AppNext ==
    \/ \E s \in Sessions : Construct(s)
    \/ \E s \in Sessions : configure_settings(s)
    \/ \E fail \in BuildFailures : OpenPage(fail)
    \/ \E fail \in BuildFailures : RebuildIndex(fail)
    \/ \E fail \in BuildFailures : ClearCache(fail)
    \/ \E q \in Questions, failure \in QueryFailures, fail \in BuildFailures :
          Search(q, failure, fail)
    \/ \E docs \in SUBSET Docs : EditCorpus(docs)

AppSpec == AppInit /\ [][AppNext]_vars

(***************************************************************************)
(* The query pipeline alone, over every scored node list within MaxNodes.  *)
(***************************************************************************)
Scores == {4, 699, 700, 705, 1000}

\* The candidate list with the given scores; a node's source is its position.
NodeList(f) == [i \in DOMAIN f |-> [source |-> i, score |-> f[i]]]

QueryInit ==
    /\ settingsConfigured = TRUE
    /\ modelLoads = 1
    /\ pc = [s \in Sessions |-> "idle"]
    /\ manifest = [d \in Dirs |-> "valid"]
    /\ chroma = EmptyCollection
    /\ corpus = {}
    /\ cache = collection_name
    /\ last = Call("start", persist_dir, NoDocuments, Plain, "")
    /\ \E n \in 0..MaxNodes : \E f \in [1..n -> Scores] : nodes = NodeList(f)
    /\ result = NoResult
    /\ tree = NoTree
    /\ loadedDocs = NotLoaded

\* SmartQueryEngine.query on the node list
RunQuery(failure) ==
    /\ result' \in query(nodes, failure)
    /\ last' = [Call("query", persist_dir, NoDocuments, Plain, Render(result'))
                EXCEPT !.failure = failure]
    /\ UNCHANGED <<tree, loadedDocs>>
    /\ UNCHANGED <<settingsConfigured, modelLoads, pc, manifest, chroma,
                   corpus, cache, nodes>>

QueryNext == \E failure \in QueryFailures : RunQuery(failure)

QuerySpec == QueryInit /\ [][QueryNext]_vars


(***************************************************************************)
(* The document loader alone, over every tree of up to MaxFiles files.     *)
(***************************************************************************)
FileAt(i, dir, kind) == [name |-> FileNames[i], dir |-> dir, kind |-> kind]

LoaderInit ==
    /\ settingsConfigured = FALSE
    /\ modelLoads = 0
    /\ pc = [s \in Sessions |-> "idle"]
    /\ manifest = [d \in Dirs |-> "absent"]
    /\ chroma = NoCollection
    /\ corpus = {}
    /\ cache = None
    /\ last = Call("start", persist_dir, NoDocuments, Plain, "")
    /\ nodes = <<>>
    /\ result = NoResult
    /\ \E root \in Roots, n \in 0..MaxFiles :
          \E dirs \in [1..n -> Subdirs], kinds \in [1..n -> FileKinds] :
             tree = [root |-> root,
                     files |-> [i \in 1..n |-> FileAt(i, dirs[i], kinds[i])]]
    /\ loadedDocs = NotLoaded

\* DocumentLoader(data_path).load_documents()
LoadDocuments ==
    /\ loadedDocs' = load_documents(tree.root, tree.files)
    /\ last' = Call("load_documents", persist_dir, NoDocuments, Plain, "")
    /\ UNCHANGED <<settingsConfigured, modelLoads, pc, manifest, chroma,
                   corpus, cache, nodes, result, tree>>

LoaderNext == LoadDocuments

LoaderSpec == LoaderInit /\ [][LoaderNext]_vars

(***************************************************************************)
(* Properties                                                              *)
(***************************************************************************)
\* The chunks an index handle serves: those of the collection it views.
IndexContent(ch, index) ==
    IF index = None THEN [d \in Docs |-> 0] ELSE ch.count

\* The sources a query against an index handle yields.
SourcesOf(ch, index, q) ==
    IF index = None THEN <<>>
    ELSE FormatSources(SourceNodes(StoredNodes(ch, q)))

C1_Step ==
    (/\ last'.op = "get_or_create_index"
     /\ last'.documents = NoDocuments
     /\ load_existing_index(manifest, chroma, last'.dir).index = None)
    => (/\ last'.raised
        /\ last'.error = "ValueError"
        /\ last'.index = None
        /\ manifest' = manifest
        /\ chroma' = chroma)

\* C1: get_or_create_index(documents=None), where load_existing_index
\* returns None, raises ValueError instead of returning None, and the
\* persisted state (manifests, collection) is what it was before the call.
C1_ConfigErrorBeforeWork == [][C1_Step]_vars

\* C1 witness: the call raised ValueError on a fresh location, and there is
\* still no manifest and no collection.
C1_Witness ==
    /\ last.op = "get_or_create_index"
    /\ last.documents = NoDocuments
    /\ last.raised
    /\ last.error = "ValueError"
    /\ manifest[last.dir] = "absent"
    /\ ~chroma.exists

C2_Step ==
    (/\ last'.op = "create_new_index"
     /\ last'.raised
     /\ index_exists(manifest', last'.dir))
    => (/\ ~(0 < last'.inserted /\ last'.inserted < Cardinality(last'.documents))
        /\ load_existing_index(manifest, chroma, last'.dir).index # None
           => load_existing_index(manifest', chroma', last'.dir).index # None)

\* C2: create_new_index is atomic: when an attempt fails and index_exists()
\* is true afterwards, the store does not hold a part of the failed
\* attempt's chunks, and an index that could be loaded before still can.
C2_BuildAtomic == [][C2_Step]_vars

\* C3: a returned result has at most 5 sources, each with score >= 0.7.
C3_TopKAndCutoff ==
    result.status = "returned"
    => (/\ Len(result.sources) <= 5
        /\ \A i \in 1..Len(result.sources) : result.sources[i].score >= 700)

\* C3 witness: six candidates all pass the cutoff and five are returned.
C3_Witness ==
    /\ result.status = "returned"
    /\ Len(nodes) = 6
    /\ \A i \in 1..Len(nodes) : nodes[i].score >= 700
    /\ Len(result.sources) = 5

\* C4: confidence is the mean of the returned sources' scores rounded to
\* two decimals (a nearest hundredth), and it is 0.0 exactly when there are
\* no sources.
C4_ConfidenceIsRoundedMean ==
    result.status = "returned"
    => LET n == Len(result.sources)
           total == SumScores(result.sources)
           off == 10 * n * result.confidence - total
       IN /\ n > 0 => (2 * off <= 10 * n /\ -2 * off <= 10 * n)
          /\ (result.confidence = 0) <=> (n = 0)

\* C4 witness: three sources whose mean is not a whole hundredth.
C4_Witness ==
    /\ result.status = "returned"
    /\ Len(result.sources) = 3
    /\ SumScores(result.sources) % 30 # 0

\* C5: load_existing_index never raises; it returns a loaded index or None,
\* and None whenever the manifest is missing or loading fails.
C5_LoadNeverRaises ==
    last.op = "load_existing_index"
    => (/\ ~last.raised
        /\ last.index \in {None, collection_name}
        /\ (\/ ~index_exists(manifest, last.dir)
            \/ LoadAttempt(manifest, chroma, last.dir) # "loaded")
           => last.index = None)

\* C5 witness: a load met a corrupt manifest beside an existing collection
\* and returned None.
C5_Witness ==
    /\ last.op = "load_existing_index"
    /\ manifest[last.dir] = "corrupt"
    /\ chroma.exists
    /\ last.index = None
    /\ ~last.raised

\* C6: the model-initializing branch of _configure_settings runs at most
\* once in the process.
C6_ConfiguredOnce == modelLoads <= 1

\* C7: a query whose embedding or generation call fails raises and the UI
\* shows the error; whatever is shown as an answer, with or without
\* sources, comes from a returned result of a query that did not fail.
C7_FailureIsReported ==
    last.op = "search"
    => (/\ last.failure # "none"
           => (result.status = "raised" /\ last.shown = "query_error")
        /\ last.shown \in {"answer_with_sources", "answer_no_sources"}
           => (last.failure = "none" /\ result.status = "returned"))

\* C7 witness: a failed generation call over an index whose chunks are all
\* below the cutoff, shown as an error.
C7_Witness ==
    /\ last.op = "search"
    /\ last.failure = "generation"
    /\ result.status = "raised"
    /\ last.shown = "query_error"
    /\ nodes # <<>>
    /\ SourceNodes(nodes) = <<>>

\* C8: after a successful create_new_index, load_existing_index returns an
\* index, and every question yields the same sources from it as from the
\* index create_new_index returned.
C8_RoundTrip ==
    (last.op = "create_new_index" /\ ~last.raised)
    => LET loaded == load_existing_index(manifest, chroma, last.dir)
       IN /\ ~loaded.raised
          /\ loaded.index # None
          /\ IndexContent(chroma, loaded.index) = IndexContent(chroma, last.index)
          /\ \A q \in Questions :
                SourcesOf(chroma, loaded.index, q) = SourcesOf(chroma, last.index, q)

\* C8 witness: a successful build into the non-default directory whose
\* index answers a question with sources.
C8_Witness ==
    /\ last.op = "create_new_index"
    /\ ~last.raised
    /\ last.dir # persist_dir
    /\ last.documents = Docs
    /\ SourcesOf(chroma, last.index, "route") # <<>>

C9_Step ==
    last'.op = "create_new_index"
    => (/\ \A other \in Dirs \ {last'.dir} :
              load_existing_index(manifest, chroma, other).index # None
              => IndexContent(chroma', load_existing_index(manifest', chroma', other).index)
                 = IndexContent(chroma, load_existing_index(manifest, chroma, other).index)
        /\ ~last'.raised
           => IndexContent(chroma', last'.index) = ChunksOf(last'.documents))

\* C9: one index per (persistence directory, collection name): a build
\* leaves the loadable index of every other directory as it was, and the
\* index it returns holds exactly the chunks of the documents just built.
C9_OneIndexPerPair == [][C9_Step]_vars

\* The store holds one complete build of some documents, and it loads.
CleanIndex(mf, ch) ==
    /\ load_existing_index(mf, ch, persist_dir).index # None
    /\ \E docs \in SUBSET Docs : ch.count = ChunksOf(docs)

C10_Step ==
    (/\ last'.op = "rebuild_index"
     /\ ~last'.raised
     /\ CleanIndex(manifest, chroma))
    => IndexContent(chroma', cache') = ChunksOf(corpus')

\* C10: "Rebuild Index" on an existing index leaves the index that serves
\* queries holding exactly the chunks of the current documents, and none
\* of a previous build that the current documents do not have.
C10_RebuildUsesCurrentDocs == [][C10_Step]_vars

\* The directories between data_path and the file of a loaded document.
Below(root, doc) == SubSeq(doc.source, Len(root) + 1, Len(doc.source) - 1)

\* C11: every loaded document is tagged with its parent directory's name
\* when its file lies in a subdirectory of data_path, and with "general"
\* when it lies directly in data_path.
C11_SectionFromRoot ==
    loadedDocs.status = "returned"
    => \A i \in 1..Len(loadedDocs.documents) :
          LET doc == loadedDocs.documents[i]
              below == Below(tree.root, doc)
          IN doc.section = IF below = <<>> THEN "general"
                           ELSE below[Len(below)]

\* The files of the tree that read and parse.
GoodFiles == SelectSeq(tree.files, LAMBDA f : f.kind = "ok")

\* C12: load_documents never raises for a bad file, whatever the error: it
\* returns the documents of exactly the files that read and parse.
C12_BadFileSkipped ==
    loadedDocs.status # "none"
    => (/\ loadedDocs.status = "returned"
        /\ Len(loadedDocs.documents) = Len(GoodFiles)
        /\ \A i \in 1..Len(GoodFiles) :
              loadedDocs.documents[i].source = PathOf(tree.root, GoodFiles[i]))

====
